---- MODULE Spec2Model ----
(***************************************************************************)
(* Restaurant-assistant notebook (connecting-with-aws-services.ipynb):     *)
(* the three booking tools over the DynamoDB table, and the /stream        *)
(* endpoint's response generator over the agent's event stream.            *)
(*                                                                         *)
(* A Python str is modelled as a sequence of tokens (an f-string is the    *)
(* concatenation of its parts); a Python dict is a TLA+ record/function,   *)
(* so that `"k" in d` is  "k" \in DOMAIN d.  A call's outcome is a record  *)
(* with  raised = TRUE  and the exception text, or  raised = FALSE  and    *)
(* the returned value.                                                     *)
(***************************************************************************)
EXTENDS Integers, Sequences, FiniteSets, TLC

VARIABLES
    table,      \* the DynamoDB table: (booking_id, restaurant_name) -> item
    lastOp,     \* the last tool call: its arguments and what the caller saw
    bookings,   \* history: successful creates whose key was not deleted since
    deleted,    \* history: keys deleted and not written again since
    events,     \* the agent's event stream, as scripted for one request
    streamExc,  \* "" or the exception the stream raises after `events`
    pos,        \* number of events generate() has consumed
    chunks,     \* what generate() has yielded so far
    genState,   \* "idle" | "iterating" | "done"
    pullPos,        \* number of events process_streaming_response has consumed
    pullPrinted,    \* the lines it printed, grouped by the event that caused them
    pullState,      \* "idle" | "iterating" | "returned" | "raised"
    pullOut,        \* what process_streaming_response returned or raised
    handlerPos,     \* number of events custom_callback_handler was called with
    handlerPrinted, \* the lines it printed, grouped by call
    globals,    \* the notebook's globals() as far as the server cell reads them
    tasks,      \* the coroutines handed to asyncio.create_task, in order
    cellRuns,   \* number of executions of the server cell
    scanPages,     \* the pages in which the table answers a scan
    scanResponse,  \* selectAllFromDynamodb: the last response
    scanItems,     \* selectAllFromDynamodb: the list  items
    scanRequests,  \* the start key of every scan request sent, in order
    scanState,     \* "idle" | "scanning" | "returned"
    scanOut,       \* what selectAllFromDynamodb returned
    messages,       \* agent.messages: the conversation history that is reported
    reportMsg,      \* report loop: index of the message it is in
    reportBlock,    \* report loop: content blocks of that message already visited
    reportPrinted,  \* what it printed, grouped by the block that caused it
    reportState     \* "idle" | "reporting" | "done" | "raised"

bookingVars == <<table, lastOp, bookings, deleted>>
streamVars == <<events, streamExc, pos, chunks, genState>>
consumerVars == <<pullPos, pullPrinted, pullState, pullOut, handlerPos, handlerPrinted>>
serverVars == <<globals, tasks, cellRuns>>
scanVars == <<scanPages, scanResponse, scanItems, scanRequests, scanState, scanOut>>
reportVars == <<messages, reportMsg, reportBlock, reportPrinted, reportState>>
vars == <<table, lastOp, bookings, deleted, events, streamExc, pos, chunks, genState,
          pullPos, pullPrinted, pullState, pullOut, handlerPos, handlerPrinted,
          globals, tasks, cellRuns,
          scanPages, scanResponse, scanItems, scanRequests, scanState, scanOut,
          messages, reportMsg, reportBlock, reportPrinted, reportState>>

---------------------------------------------------------------------------
(* Bounds of the model *)

\* successful creates kept live at once (the cap on the history `bookings`)
MaxCreates == 2
\* longest scripted event stream
MaxEvents == 3
MaxPullEvents == 2
MaxCellRuns == 3
MaxPages == 3
MaxPageLen == 2
MaxMessages == 3
MaxBlocks == 2

---------------------------------------------------------------------------
(* Values *)

\* str(uuid.uuid4()): 36 characters, 8-4-4-4-12.  U1 and U2 differ only after
\* the eighth character; U3 differs before it.
U1 == <<"3","f","2","a","9","c","1","e","-","7","b","4","4","-","4","d","1","0",
        "-","a","6","e","2","-","5","c","8","8","0","f","1","d","9","a","3","7">>
U2 == <<"3","f","2","a","9","c","1","e","-","0","0","c","5","-","4","9","9","1",
        "-","b","b","0","3","-","e","1","6","6","4","2","7","7","0","d","5","2">>
U3 == <<"c","0","4","4","d","e","7","2","-","1","a","9","f","-","4","e","3","3",
        "-","8","1","2","6","-","9","9","b","a","4","1","0","c","6","e","f","5">>
Uuids == {U1, U2, U3}

\* the slice taken one character too far,  s[:n + 1]
Take_through(s, n) == SubSeq(s, 1, IF Len(s) < n + 1 THEN Len(s) ELSE n + 1)

\* the slice  s[:n]
Take(s, n) == SubSeq(s, 1, IF Len(s) < n THEN Len(s) ELSE n)

\* the length of the booking id slice, [:8]
IdLen == 8

Restaurants == {"Rice & Spice", "NutriDine"}
Dates == {"2025-12-01"}
Hours == {"20:00"}
Guests == {"Anna", "Bob"}
PartySizes == {4}
ToolUseIds == {"tooluse_1"}

BookingIds == {Take(u, IdLen) : u \in Uuids}
Keys == BookingIds \X Restaurants

InputFields == {"date", "hour", "restaurant_name", "guest_name", "num_guests"}
ValidInputs == [date : Dates, hour : Hours, restaurant_name : Restaurants,
                guest_name : Guests, num_guests : PartySizes]
Restrict(f, S) == [k \in S |-> f[k]]
\* tool inputs the agent loop may hand over: the schema's required fields all
\* present, or one of them missing
ToolInputs == ValidInputs \cup
    {Restrict(i, InputFields \ {f}) :
        i \in {v \in ValidInputs : v.guest_name = "Anna" /\ v.restaurant_name = "NutriDine"},
        f \in {"date", "num_guests"}}
ToolUses == [toolUseId : ToolUseIds, input : ToolInputs]

\* what the parameter store and the table can answer with instead of a result
SsmFaults == {"ParameterNotFound"}
StoreFaults == {"ProvisionedThroughputExceededException"}
HTTP_OK == 200

Returned(v) == [raised |-> FALSE, ret |-> v]
Raised(e) == [raised |-> TRUE, exc |-> e]
\* a returned Python value with its runtime type
Str(s) == [type |-> "str", value |-> s]
Dict(d) == [type |-> "dict", value |-> d]

EmptyTable == [k \in {} |-> {}]

---------------------------------------------------------------------------
(* The external services, as the tools call them *)

\* smm_client.get_parameter(Name=f'{kb_name}-table-name'): the parameter, or a fault
get_parameter(ssm) ==
    IF ssm = "ok" THEN Returned([Parameter |-> [Value |-> "restaurant-bookings"]])
    ELSE Raised(<<ssm>>)

\* table.get_item(Key=...): the response carries "Item" only when the key holds one
get_item(tbl, key, fault) ==
    IF fault # "ok" THEN Raised(<<fault>>)
    ELSE IF key \in DOMAIN tbl THEN Returned([Item |-> tbl[key]])
    ELSE Returned([ResponseMetadata |-> [HTTPStatusCode |-> HTTP_OK]])

\* table.put_item(Item=...): unconditional, replaces whatever the key held
put_item(tbl, item, fault) ==
    IF fault # "ok" THEN Raised(<<fault>>) @@ [table |-> tbl]
    ELSE LET key == <<item.booking_id, item.restaurant_name>>
         IN  Returned([ResponseMetadata |-> [HTTPStatusCode |-> HTTP_OK]]) @@
             [table |-> [k \in DOMAIN tbl \cup {key} |->
                            IF k = key THEN item ELSE tbl[k]]]

\* table.delete_item(Key=...): unconditional and idempotent; a key that holds
\* nothing is answered exactly like one that did
delete_item(tbl, key, fault) ==
    IF fault # "ok" THEN Raised(<<fault>>) @@ [table |-> tbl]
    ELSE Returned([ResponseMetadata |-> [HTTPStatusCode |-> HTTP_OK]]) @@
         [table |-> [k \in DOMAIN tbl \ {key} |-> tbl[k]]]

---------------------------------------------------------------------------
(* The booking tools *)

NotFoundText(booking_id) == <<"No booking found with ID ">> \o booking_id
DeletedText(booking_id) == <<"Booking with ID ">> \o booking_id \o <<" deleted successfully">>
FailedDeleteText(booking_id) == <<"Failed to delete booking with ID ">> \o booking_id
CreatedText(booking_id) == <<"Reservation created with booking id: ">> \o booking_id

\* get_booking_details with the lookup matching on booking_id alone
get_booking_details_by_id(tbl, booking_id, restaurant_name, env) ==
    LET held == {k \in DOMAIN tbl : k[1] = booking_id}
    IN  IF env.ddb # "ok" THEN Returned(Str(<<env.ddb>>))
        ELSE IF held # {} THEN Returned(Dict(tbl[CHOOSE k \in held : TRUE]))
        ELSE Returned(Str(NotFoundText(booking_id)))

\* get_booking_details with get_item called outside the try
get_booking_details_unguarded(tbl, booking_id, restaurant_name, env) ==
    LET response == get_item(tbl, <<booking_id, restaurant_name>>, env.ddb)
    IN  IF response.raised
        THEN Raised(response.exc)
        ELSE IF "Item" \in DOMAIN response.ret
             THEN Returned(Dict(response.ret.Item))
             ELSE Returned(Str(NotFoundText(booking_id)))

\* get_booking_details: the whole body is inside the try; it uses the table
\* handle resolved once by the notebook's set-up cell
get_booking_details(tbl, booking_id, restaurant_name, env) ==
    LET response == get_item(tbl, <<booking_id, restaurant_name>>, env.ddb)
    IN  IF response.raised
        THEN Returned(Str(response.exc))
        ELSE IF "Item" \in DOMAIN response.ret
             THEN Returned(Dict(response.ret.Item))
             ELSE Returned(Str(NotFoundText(booking_id)))

\* delete_booking that reads the key (get_item) where it should delete it
delete_booking_reads(tbl, booking_id, restaurant_name, env) ==
    LET table_name == get_parameter(env.ssm)
    IN  IF table_name.raised
        THEN Raised(table_name.exc) @@ [table |-> tbl]
        ELSE LET response == get_item(tbl, <<booking_id, restaurant_name>>, env.ddb)
             IN  IF response.raised
                 THEN Returned(Str(response.exc)) @@ [table |-> tbl]
                 ELSE Returned(Str(DeletedText(booking_id))) @@ [table |-> tbl]

\* delete_booking that removes every record of the booking id, whatever the restaurant
delete_booking_by_id(tbl, booking_id, restaurant_name, env) ==
    LET table_name == get_parameter(env.ssm)
    IN  IF table_name.raised
        THEN Raised(table_name.exc) @@ [table |-> tbl]
        ELSE IF env.ddb # "ok"
        THEN Returned(Str(<<env.ddb>>)) @@ [table |-> tbl]
        ELSE Returned(Str(DeletedText(booking_id))) @@
             [table |-> [k \in {j \in DOMAIN tbl : j[1] # booking_id} |-> tbl[k]]]

\* delete_booking: the table name is resolved before the try; delete_item and
\* the status test are inside it
delete_booking(tbl, booking_id, restaurant_name, env) ==
    LET table_name == get_parameter(env.ssm)
    IN  IF table_name.raised
        THEN Raised(table_name.exc) @@ [table |-> tbl]
        ELSE LET response == delete_item(tbl, <<booking_id, restaurant_name>>, env.ddb)
             IN  IF response.raised
                 THEN Returned(Str(response.exc)) @@ [table |-> response.table]
                 ELSE IF response.ret.ResponseMetadata.HTTPStatusCode = HTTP_OK
                      THEN Returned(Str(DeletedText(booking_id))) @@ [table |-> response.table]
                      ELSE Returned(Str(FailedDeleteText(booking_id))) @@ [table |-> response.table]

\* the order in which create_booking reads tool["input"]
ReadOrder == <<"date", "hour", "restaurant_name", "guest_name", "num_guests">>
FirstMissing(input) ==
    ReadOrder[CHOOSE i \in 1..Len(ReadOrder) :
                 /\ ReadOrder[i] \notin DOMAIN input
                 /\ \A j \in 1..(i - 1) : ReadOrder[j] \in DOMAIN input]

\* create_booking that first reserves the id with a record of the key alone
\* and then writes the full record
create_booking_reserves_first(tbl, tool, env, uuid) ==
    LET table_name == get_parameter(env.ssm)
    IN  IF table_name.raised
        THEN Raised(table_name.exc) @@ [table |-> tbl]
        ELSE IF InputFields \ DOMAIN tool.input # {}
        THEN Raised(<<"KeyError", FirstMissing(tool.input)>>) @@ [table |-> tbl]
        ELSE LET booking_id == Take(uuid, IdLen)
                 reserved == put_item(tbl,
                                 [booking_id |-> booking_id,
                                  restaurant_name |-> tool.input.restaurant_name],
                                 "ok")
                 response == put_item(reserved.table,
                                 [booking_id |-> booking_id,
                                  restaurant_name |-> tool.input.restaurant_name,
                                  date |-> tool.input.date,
                                  name |-> tool.input.guest_name,
                                  hour |-> tool.input.hour,
                                  num_guests |-> tool.input.num_guests],
                                 env.ddb)
             IN  IF response.raised
                 THEN Returned([toolUseId |-> tool.toolUseId, status |-> "error",
                                content |-> <<[text |-> response.exc]>>])
                      @@ [table |-> response.table]
                 ELSE Returned([toolUseId |-> tool.toolUseId, status |-> "success",
                                content |-> <<[text |-> CreatedText(booking_id)]>>])
                      @@ [table |-> response.table]

\* create_booking: the table name and the tool input are read before the try;
\* the id is the first IdLen characters of a fresh uuid4; put_item is inside it
create_booking(tbl, tool, env, uuid) ==
    LET table_name == get_parameter(env.ssm)
    IN  IF table_name.raised
        THEN Raised(table_name.exc) @@ [table |-> tbl]
        ELSE IF InputFields \ DOMAIN tool.input # {}
        THEN Raised(<<"KeyError", FirstMissing(tool.input)>>) @@ [table |-> tbl]
        ELSE LET booking_id == Take(uuid, IdLen)
                 response == put_item(tbl,
                                 [booking_id |-> booking_id,
                                  restaurant_name |-> tool.input.restaurant_name,
                                  date |-> tool.input.date,
                                  name |-> tool.input.guest_name,
                                  hour |-> tool.input.hour,
                                  num_guests |-> tool.input.num_guests],
                                 env.ddb)
             IN  IF response.raised
                 THEN Returned([toolUseId |-> tool.toolUseId, status |-> "error",
                                content |-> <<[text |-> response.exc]>>])
                      @@ [table |-> response.table]
                 ELSE Returned([toolUseId |-> tool.toolUseId, status |-> "success",
                                content |-> <<[text |-> CreatedText(booking_id)]>>])
                      @@ [table |-> response.table]

\* what the caller of a tool sees
Outcome(o) == IF o.raised THEN Raised(o.exc) ELSE Returned(o.ret)

\* one call's external conditions: at most one service faults
LookupEnvs == {[ddb |-> f] : f \in {"ok"} \cup StoreFaults}
ToolEnvs == {[ssm |-> "ok", ddb |-> "ok"]}
            \cup {[ssm |-> f, ddb |-> "ok"] : f \in SsmFaults}
            \cup {[ssm |-> "ok", ddb |-> f] : f \in StoreFaults}

---------------------------------------------------------------------------
(* The agent calling the tools *)

NoOp == [op |-> "none"]

Create ==
    /\ Len(bookings) < MaxCreates
    /\ \E tool \in ToolUses, env \in ToolEnvs, uuid \in Uuids :
         LET out == create_booking(table, tool, env, uuid)
             ok == ~out.raised /\ out.ret.status = "success"
             key == <<Take(uuid, IdLen), tool.input.restaurant_name>>
         IN  /\ table' = out.table
             /\ lastOp' = [op |-> "create", tool |-> tool, env |-> env, out |-> Outcome(out)]
             /\ bookings' = IF ok
                            THEN Append(bookings, [booking_id |-> Take(uuid, IdLen),
                                                   input |-> tool.input])
                            ELSE bookings
             /\ deleted' = IF ok THEN deleted \ {key} ELSE deleted
    /\ UNCHANGED <<streamVars, consumerVars, serverVars, scanVars, reportVars>>

Lookup ==
    /\ \E booking_id \in BookingIds, restaurant_name \in Restaurants, env \in LookupEnvs :
         lastOp' = [op |-> "lookup", booking_id |-> booking_id,
                    restaurant_name |-> restaurant_name, env |-> env,
                    out |-> get_booking_details(table, booking_id, restaurant_name, env)]
    /\ UNCHANGED <<table, bookings, deleted>>
    /\ UNCHANGED <<streamVars, consumerVars, serverVars, scanVars, reportVars>>

SelectLive(s, key) ==
    SelectSeq(s, LAMBDA e : <<e.booking_id, e.input.restaurant_name>> # key)

Delete ==
    /\ \E booking_id \in BookingIds, restaurant_name \in Restaurants, env \in ToolEnvs :
         LET out == delete_booking(table, booking_id, restaurant_name, env)
             key == <<booking_id, restaurant_name>>
             removed == /\ key \in DOMAIN table
                        /\ ~out.raised
                        /\ out.ret = Str(DeletedText(booking_id))
         IN  /\ table' = out.table
             /\ lastOp' = [op |-> "delete", booking_id |-> booking_id,
                           restaurant_name |-> restaurant_name, env |-> env,
                           out |-> Outcome(out)]
             /\ bookings' = IF removed THEN SelectLive(bookings, key) ELSE bookings
             /\ deleted' = IF removed THEN deleted \cup {key} ELSE deleted
    /\ UNCHANGED <<streamVars, consumerVars, serverVars, scanVars, reportVars>>

BookingIdle ==
    /\ table = EmptyTable
    /\ lastOp = NoOp
    /\ bookings = <<>>
    /\ deleted = {}

ConsumerIdle ==
    /\ pullPos = 0
    /\ pullPrinted = <<>>
    /\ pullState = "idle"
    /\ pullOut = [raised |-> FALSE, ret |-> "unset"]
    /\ handlerPos = 0
    /\ handlerPrinted = <<>>

ServerIdle ==
    /\ globals = [name \in {} |-> 0]
    /\ tasks = <<>>
    /\ cellRuns = 0

ScanIdle ==
    /\ scanPages = <<>>
    /\ scanResponse = [Items |-> <<>>]
    /\ scanItems = <<>>
    /\ scanRequests = <<>>
    /\ scanState = "idle"
    /\ scanOut = [columns |-> {}, rows |-> <<>>]

ReportIdle ==
    /\ messages = <<>>
    /\ reportMsg = 1
    /\ reportBlock = 0
    /\ reportPrinted = <<>>
    /\ reportState = "idle"

StreamIdle ==
    /\ events = <<>>
    /\ streamExc = ""
    /\ pos = 0
    /\ chunks = <<>>
    /\ genState = "idle"

Init ==
    /\ BookingIdle
    /\ StreamIdle
    /\ ConsumerIdle
    /\ ServerIdle
    /\ ScanIdle
    /\ ReportIdle

Next == Create \/ Lookup \/ Delete

Spec == Init /\ [][Next]_vars

---------------------------------------------------------------------------
(* The /stream endpoint: stream_response.generate() *)

\* events of agent.stream_async: dicts over the keys the notebook inspects
E_init == [init_event_loop |-> TRUE]
E_tool == [current_tool_use |-> [name |-> "calculator"]]
E_text == [data |-> <<"Paris">>]
E_empty == [data |-> <<>>]
E_both == [data |-> <<"49">>, current_tool_use |-> [name |-> "calculator"]]
Events == {E_init, E_tool, E_text, E_empty, E_both}

SeqsUpTo(S, n) == UNION {[1..m -> S] : m \in 0..n}
StreamFaults == {"ModelThrottledException"}

\* the loop body testing the value's truth,  if event.get("data"):
generate_event_truthy(yielded, event) ==
    IF "data" \in DOMAIN event /\ event.data # <<>>
    THEN Append(yielded, event.data) ELSE yielded

\* the body of the  async for:  a text-bearing event is yielded, others are not
generate_event(yielded, event) ==
    IF "data" \in DOMAIN event THEN Append(yielded, event.data) ELSE yielded

\* the except clause swallowing the fault,  except Exception: pass
generate_except_silent(yielded, e) == yielded

\* the except clause:  yield f"Error: {str(e)}"
generate_except(yielded, e) == Append(yielded, <<"Error: ", e>>)

GenerateNext ==
    /\ genState = "iterating"
    /\ pos < Len(events)
    /\ chunks' = generate_event(chunks, events[pos + 1])
    /\ pos' = pos + 1
    /\ UNCHANGED <<events, streamExc, genState>>
    /\ UNCHANGED <<bookingVars, consumerVars, serverVars, scanVars, reportVars>>

GenerateStop ==
    /\ genState = "iterating"
    /\ pos = Len(events)
    /\ streamExc = ""
    /\ genState' = "done"
    /\ UNCHANGED <<events, streamExc, pos, chunks>>
    /\ UNCHANGED <<bookingVars, consumerVars, serverVars, scanVars, reportVars>>

GenerateExcept ==
    /\ genState = "iterating"
    /\ pos = Len(events)
    /\ streamExc # ""
    /\ chunks' = generate_except(chunks, streamExc)
    /\ genState' = "done"
    /\ UNCHANGED <<events, streamExc, pos>>
    /\ UNCHANGED <<bookingVars, consumerVars, serverVars, scanVars, reportVars>>

InitStream ==
    /\ table = EmptyTable
    /\ lastOp = NoOp
    /\ bookings = <<>>
    /\ deleted = {}
    /\ events \in SeqsUpTo(Events, MaxEvents)
    /\ streamExc \in {""} \cup StreamFaults
    /\ pos = 0
    /\ chunks = <<>>
    /\ genState = "iterating"
    /\ ConsumerIdle
    /\ ServerIdle
    /\ ScanIdle
    /\ ReportIdle

NextStream == GenerateNext \/ GenerateStop \/ GenerateExcept

SpecStream == InitStream /\ [][NextStream]_vars

---------------------------------------------------------------------------
(* Pull mode and push mode: process_streaming_response and
   custom_callback_handler over one agent run *)

\* the text snippet keeps this many characters of a chunk
SnippetLen == 20

E_long == [data |-> [i \in 1..(SnippetLen + 1) |-> "x"]]
E_twenty == [data |-> [i \in 1..SnippetLen |-> "y"]]
E_cycle == [start_event_loop |-> TRUE, start |-> TRUE]
E_new == [start |-> TRUE]
E_msg == [message |-> [role |-> "assistant"], init_event_loop |-> FALSE]
E_stop == [force_stop |-> TRUE, force_stop_reason |-> "max_tokens"]
E_stop_plain == [force_stop |-> TRUE]
E_all == [message |-> [role |-> "user"], force_stop |-> TRUE,
          current_tool_use |-> [name |-> "calculator"], data |-> <<"o", "k">>]
E_noname == [current_tool_use |-> [toolUseId |-> "tooluse_1"]]
E_result == [result |-> "AgentResult"]

AgentEvents == Events \cup {E_long, E_twenty, E_cycle, E_new, E_msg, E_stop,
                            E_stop_plain, E_all, E_noname}

\* an agent run yields its events and then the result event, or raises
AgentRuns(n) ==
    {[events |-> Append(body, E_result), exc |-> ""] : body \in SeqsUpTo(AgentEvents, n)}
    \cup {[events |-> body, exc |-> f] : body \in SeqsUpTo(AgentEvents, n), f \in StreamFaults}

\* event.get(key, False) taken as a condition
Truthy(event, key) == key \in DOMAIN event /\ event[key] = TRUE

\* event["current_tool_use"].get("name") taken as a condition
NamesTool(event) ==
    /\ "current_tool_use" \in DOMAIN event
    /\ "name" \in DOMAIN event.current_tool_use
    /\ event.current_tool_use.name # ""

\* event["data"][:20] + ("..." if len(event["data"]) > 20 else "")
Snippet(data) ==
    Take(data, SnippetLen) \o (IF Len(data) > SnippetLen THEN <<"...">> ELSE <<>>)

\* the if / elif chain over the lifecycle keys: the line of the first that applies
\* (a printed line is its text after the glyph that opens it)
LifecycleLines(event) ==
    IF Truthy(event, "init_event_loop") THEN << <<"Event loop initialized">> >>
    ELSE IF Truthy(event, "start_event_loop") THEN << <<"Event loop cycle starting">> >>
    ELSE IF Truthy(event, "start") THEN << <<"New cycle started">> >>
    ELSE IF "message" \in DOMAIN event
         THEN << <<"New message created: ", event.message.role>> >>
    ELSE IF Truthy(event, "force_stop")
         THEN << <<"Event loop force-stopped: ",
                   IF "force_stop_reason" \in DOMAIN event
                   THEN event.force_stop_reason ELSE "unknown reason">> >>
    ELSE <<>>

ToolLines(event) ==
    IF NamesTool(event) THEN << <<"Using tool: ", event.current_tool_use.name>> >>
    ELSE <<>>

TextLines(event) ==
    IF "data" \in DOMAIN event THEN << <<"Text: ">> \o Snippet(event.data) >>
    ELSE <<>>

\* the loop body with the tool and text tests chained to the lifecycle tests by elif
process_event_chained(event) ==
    IF LifecycleLines(event) # <<>> THEN LifecycleLines(event)
    ELSE IF ToolLines(event) # <<>> THEN ToolLines(event)
    ELSE TextLines(event)

\* the body of the  async for:  the lines printed for one event
process_event(event) ==
    LifecycleLines(event) \o ToolLines(event) \o TextLines(event)

\* the function ending without a return statement
process_streaming_response_return_none(evs, n) ==
    Returned("None")

\* return event["result"], event being the loop variable after the loop
process_streaming_response_return(evs, n) ==
    IF n = 0 THEN Raised("UnboundLocalError")
    ELSE IF "result" \in DOMAIN evs[n] THEN Returned(evs[n].result)
    ELSE Raised("KeyError")

\* the handler testing the tool before the text
custom_callback_handler_tool_first(kwargs) ==
    IF NamesTool(kwargs) THEN << <<"\nUSING TOOL: ", kwargs.current_tool_use.name>> >>
    ELSE IF "data" \in DOMAIN kwargs THEN << <<"MODEL OUTPUT: ">> \o kwargs.data >>
    ELSE <<>>

\* custom_callback_handler(**kwargs): the lines printed for one call
custom_callback_handler(kwargs) ==
    IF "data" \in DOMAIN kwargs THEN << <<"MODEL OUTPUT: ">> \o kwargs.data >>
    ELSE IF NamesTool(kwargs)
         THEN << <<"\nUSING TOOL: ", kwargs.current_tool_use.name>> >>
    ELSE <<>>

PullNext ==
    /\ pullState = "iterating"
    /\ pullPos < Len(events)
    /\ pullPrinted' = Append(pullPrinted, process_event(events[pullPos + 1]))
    /\ pullPos' = pullPos + 1
    /\ UNCHANGED <<pullState, pullOut, handlerPos, handlerPrinted>>
    /\ UNCHANGED <<bookingVars, streamVars, serverVars, scanVars, reportVars>>

PullReturn ==
    /\ pullState = "iterating"
    /\ pullPos = Len(events)
    /\ streamExc = ""
    /\ pullOut' = process_streaming_response_return(events, pullPos)
    /\ pullState' = IF pullOut'.raised THEN "raised" ELSE "returned"
    /\ UNCHANGED <<pullPos, pullPrinted, handlerPos, handlerPrinted>>
    /\ UNCHANGED <<bookingVars, streamVars, serverVars, scanVars, reportVars>>

PullRaise ==
    /\ pullState = "iterating"
    /\ pullPos = Len(events)
    /\ streamExc # ""
    /\ pullOut' = Raised(streamExc)
    /\ pullState' = "raised"
    /\ UNCHANGED <<pullPos, pullPrinted, handlerPos, handlerPrinted>>
    /\ UNCHANGED <<bookingVars, streamVars, serverVars, scanVars, reportVars>>

\* the next cell: the same agent run with the handler registered
HandlerCall ==
    /\ pullState \in {"returned", "raised"}
    /\ handlerPos < Len(events)
    /\ handlerPrinted' = Append(handlerPrinted,
                                custom_callback_handler(events[handlerPos + 1]))
    /\ handlerPos' = handlerPos + 1
    /\ UNCHANGED <<pullPos, pullPrinted, pullState, pullOut>>
    /\ UNCHANGED <<bookingVars, streamVars, serverVars, scanVars, reportVars>>

InitPull ==
    /\ BookingIdle
    /\ \E run \in AgentRuns(MaxPullEvents) :
          /\ events = run.events
          /\ streamExc = run.exc
    /\ pos = 0
    /\ chunks = <<>>
    /\ genState = "idle"
    /\ pullPos = 0
    /\ pullPrinted = <<>>
    /\ pullState = "iterating"
    /\ pullOut = [raised |-> FALSE, ret |-> "unset"]
    /\ handlerPos = 0
    /\ handlerPrinted = <<>>
    /\ ServerIdle
    /\ ScanIdle
    /\ ReportIdle

NextPull == PullNext \/ PullReturn \/ PullRaise \/ HandlerCall

SpecPull == InitPull /\ [][NextPull]_vars

\* asyncio.run drives the coroutine until it returns or raises
SpecPullLive == SpecPull /\ WF_vars(PullNext \/ PullReturn \/ PullRaise)

---------------------------------------------------------------------------
(* The server cell: the guarded start of the background server, and the
   requests the started server takes *)

\* the cell's start with the guard left out
server_cell_unguarded(g, ts) ==
    [globals |-> [name \in DOMAIN g \cup {"server_task"} |-> Len(ts) + 1],
     tasks |-> Append(ts, "start_server")]

\* if "server_task" not in globals(): server_task = asyncio.create_task(start_server())
server_cell(g, ts) ==
    IF "server_task" \notin DOMAIN g
    THEN [globals |-> [name \in DOMAIN g \cup {"server_task"} |-> Len(ts) + 1],
          tasks |-> Append(ts, "start_server")]
    ELSE [globals |-> g, tasks |-> ts]

RunServerCell ==
    /\ cellRuns < MaxCellRuns
    /\ LET after == server_cell(globals, tasks)
       IN  /\ globals' = after.globals
           /\ tasks' = after.tasks
    /\ cellRuns' = cellRuns + 1
    /\ UNCHANGED <<bookingVars, streamVars, consumerVars, scanVars, reportVars>>

\* POST /stream on the started server: a new generate() over a new agent run
StreamRequest ==
    /\ "server_task" \in DOMAIN globals
    /\ genState \in {"idle", "done"}
    /\ events' \in SeqsUpTo(Events, MaxEvents)
    /\ streamExc' \in {""} \cup StreamFaults
    /\ pos' = 0
    /\ chunks' = <<>>
    /\ genState' = "iterating"
    /\ UNCHANGED <<bookingVars, consumerVars, serverVars, scanVars, reportVars>>

InitServer ==
    /\ BookingIdle
    /\ StreamIdle
    /\ ConsumerIdle
    /\ ServerIdle
    /\ ScanIdle
    /\ ReportIdle

NextServer ==
    RunServerCell \/ StreamRequest \/ GenerateNext \/ GenerateStop \/ GenerateExcept

SpecServer == InitServer /\ [][NextServer]_vars

---------------------------------------------------------------------------
(* selectAllFromDynamodb: the paginated scan *)

Item_anna == [booking_id |-> "7c9e6679", restaurant_name |-> "Rice & Spice", name |-> "Anna"]
Item_bob == [booking_id |-> "1b4e28ba", restaurant_name |-> "NutriDine", name |-> "Bob"]
Item_bare == [booking_id |-> "9a0b1c2d", restaurant_name |-> "NutriDine"]
ScanItems == {Item_anna, Item_bob, Item_bare}

RECURSIVE Flatten(_)
Flatten(pages) ==
    IF pages = <<>> THEN <<>> ELSE Head(pages) \o Flatten(Tail(pages))

NoDuplicates(seq) == \A i, j \in 1..Len(seq) : seq[i] = seq[j] => i = j

\* the ways a table answers a scan: its items once each, cut into pages
PagedScans ==
    {pages \in UNION {[1..m -> SeqsUpTo(ScanItems, MaxPageLen)] : m \in 1..MaxPages} :
        NoDuplicates(Flatten(pages))}

\* the start key of the first request, which passes none
NoStartKey == 0

\* table.scan(ExclusiveStartKey=startKey): the page after the one the key
\* ends, with the key of its own end unless it is the last
scan(pages, startKey) ==
    LET i == startKey + 1
    IN  IF i < Len(pages)
        THEN [Items |-> pages[i], LastEvaluatedKey |-> i]
        ELSE [Items |-> pages[i]]

\* the loop body rebinding the list,  items = response["Items"]
items_replace(items, response) == response.Items

\* items.extend(response["Items"])
items_extend(items, response) == items \o response.Items

\* pd.DataFrame(items): one row for each dict, in order, over the union of
\* their keys; a key a dict lacks is NaN in its row
DataFrame(items) ==
    LET columns == UNION {DOMAIN items[k] : k \in 1..Len(items)}
    IN  [columns |-> columns,
         rows |-> [k \in 1..Len(items) |->
                     [c \in columns |-> IF c \in DOMAIN items[k]
                                        THEN items[k][c] ELSE "NaN"]]]

ScanFirst ==
    /\ scanState = "idle"
    /\ scanResponse' = scan(scanPages, NoStartKey)
    /\ scanItems' = scanResponse'.Items
    /\ scanRequests' = Append(scanRequests, NoStartKey)
    /\ scanState' = "scanning"
    /\ UNCHANGED <<scanPages, scanOut>>
    /\ UNCHANGED <<bookingVars, streamVars, consumerVars, serverVars, reportVars>>

ScanMore ==
    /\ scanState = "scanning"
    /\ "LastEvaluatedKey" \in DOMAIN scanResponse
    /\ scanResponse' = scan(scanPages, scanResponse.LastEvaluatedKey)
    /\ scanItems' = items_extend(scanItems, scanResponse')
    /\ scanRequests' = Append(scanRequests, scanResponse.LastEvaluatedKey)
    /\ UNCHANGED <<scanPages, scanState, scanOut>>
    /\ UNCHANGED <<bookingVars, streamVars, consumerVars, serverVars, reportVars>>

ScanReturn ==
    /\ scanState = "scanning"
    /\ "LastEvaluatedKey" \notin DOMAIN scanResponse
    /\ scanOut' = DataFrame(scanItems)
    /\ scanState' = "returned"
    /\ UNCHANGED <<scanPages, scanResponse, scanItems, scanRequests>>
    /\ UNCHANGED <<bookingVars, streamVars, consumerVars, serverVars, reportVars>>

InitScan ==
    /\ BookingIdle
    /\ StreamIdle
    /\ ConsumerIdle
    /\ ServerIdle
    /\ scanPages \in PagedScans
    /\ scanResponse = [Items |-> <<>>]
    /\ scanItems = <<>>
    /\ scanRequests = <<>>
    /\ scanState = "idle"
    /\ scanOut = [columns |-> {}, rows |-> <<>>]
    /\ ReportIdle

NextScan == ScanFirst \/ ScanMore \/ ScanReturn

SpecScan == InitScan /\ [][NextScan]_vars

\* the call runs in one cell, to its end
SpecScanLive == SpecScan /\ WF_vars(NextScan)

---------------------------------------------------------------------------
(* The tool usage report: the loop over agent.messages *)

B_text == [text |-> "Booking created"]
B_use_1 == [toolUse |-> [toolUseId |-> "tooluse_1", name |-> "create_booking",
                         input |-> "input_1"]]
B_use_2 == [toolUse |-> [toolUseId |-> "tooluse_2", name |-> "delete_booking",
                         input |-> "input_2"]]
B_result_1 == [toolResult |-> [toolUseId |-> "tooluse_1", status |-> "success",
                               content |-> "content_1"]]
B_result_2 == [toolResult |-> [toolUseId |-> "tooluse_2", status |-> "error",
                               content |-> "content_2"]]

BlocksUpTo(S, n) ==
    {c \in UNION {[1..k -> S] : k \in 1..n} : NoDuplicates(c)}

\* an assistant message holds text and tool uses; a user message holds the
\* prompt's text or tool results; a history opens with the prompt
AssistantMessages(n) ==
    {[role |-> "assistant", content |-> c] : c \in BlocksUpTo({B_text, B_use_1, B_use_2}, n)}
UserMessages(n) ==
    {[role |-> "user", content |-> c] :
        c \in {<<B_text>>} \cup BlocksUpTo({B_result_1, B_result_2}, n)}

Histories(len, n) ==
    {h \in UNION {[1..k -> AssistantMessages(n) \cup UserMessages(n)] : k \in 0..len} :
        /\ \A i \in 1..Len(h) : h[i].role = (IF i % 2 = 1 THEN "user" ELSE "assistant")
        /\ h # <<>> => h[1].content = <<B_text>>}

ToolUseLines(tool_use) ==
    <<<<"Tool Use:">>,
      <<"\tToolUseId: ", tool_use.toolUseId>>,
      <<"\tname: ", tool_use.name>>,
      <<"\tinput: ", tool_use.input>>>>

ToolResultLines(tool_result) ==
    <<<<"Tool Result:">>,
      <<"\tToolUseId: ", tool_result.toolUseId>>,
      <<"\tStatus: ", tool_result.status>>,
      <<"\tContent: ", tool_result.content>>,
      <<"=======================">>>>

\* the body of the inner for, for the block  content  of message  m:
\* the tool result printed is read from  m["content"][0]
report_content(m, content) ==
    LET used == IF "toolUse" \in DOMAIN content
                THEN ToolUseLines(content.toolUse) ELSE <<>>
    IN  IF "toolResult" \notin DOMAIN content THEN Returned(used)
        ELSE IF "toolResult" \notin DOMAIN m.content[1]
             THEN [raised |-> TRUE, exc |-> "KeyError",
                   printed |-> used \o <<<<"Tool Result:">>>>]
        ELSE Returned(used \o ToolResultLines(m.content[1].toolResult))

ReportBlock ==
    /\ reportState = "reporting"
    /\ LET m == messages[reportMsg]
           out == report_content(m, m.content[reportBlock + 1])
           lastOfMessage == reportBlock + 1 = Len(m.content)
       IN  /\ reportPrinted' =
                Append(reportPrinted,
                       [msg |-> reportMsg, block |-> reportBlock + 1,
                        lines |-> IF out.raised THEN out.printed ELSE out.ret])
           /\ reportState' =
                IF out.raised THEN "raised"
                ELSE IF lastOfMessage /\ reportMsg = Len(messages) THEN "done"
                ELSE "reporting"
           /\ reportMsg' = IF ~out.raised /\ lastOfMessage THEN reportMsg + 1 ELSE reportMsg
           /\ reportBlock' = IF out.raised THEN reportBlock
                             ELSE IF lastOfMessage THEN 0 ELSE reportBlock + 1
    /\ UNCHANGED messages
    /\ UNCHANGED <<bookingVars, streamVars, consumerVars, serverVars, scanVars>>

InitReport ==
    /\ BookingIdle
    /\ StreamIdle
    /\ ConsumerIdle
    /\ ServerIdle
    /\ ScanIdle
    /\ messages \in Histories(MaxMessages, MaxBlocks)
    /\ reportMsg = 1
    /\ reportBlock = 0
    /\ reportPrinted = <<>>
    /\ reportState = IF messages = <<>> THEN "done" ELSE "reporting"

NextReport == ReportBlock

SpecReport == InitReport /\ [][NextReport]_vars

---------------------------------------------------------------------------
(* Properties of the booking tools (checked under Spec) *)

AllOk == [ssm |-> "ok", ddb |-> "ok"]
LookupKey == <<lastOp.booking_id, lastOp.restaurant_name>>
BookingKey(e) == <<e.booking_id, e.input.restaurant_name>>
\* the booking id a success result names
BookingIdOf(result) == Tail(result.content[1].text)
\* the record carries exactly the values the create was given
Matches(item, booking_id, input) ==
    /\ item.booking_id = booking_id
    /\ item.restaurant_name = input.restaurant_name
    /\ item.date = input.date
    /\ item.hour = input.hour
    /\ item.name = input.guest_name
    /\ item.num_guests = input.num_guests

\* C1: a lookup that the table answers, for the key of a successful create
\* with no delete of that key since, returns a record whose date, hour,
\* restaurant name, guest name and party size are the values given to that create.
C1_CreateThenLookup ==
    (lastOp.op = "lookup" /\ lastOp.env.ddb = "ok") =>
        \A i \in 1..Len(bookings) :
            BookingKey(bookings[i]) = LookupKey =>
                /\ ~lastOp.out.raised
                /\ lastOp.out.ret.type = "dict"
                /\ Matches(lastOp.out.ret.value, bookings[i].booking_id, bookings[i].input)

\* C2: a successful create_booking writes under a key that held no record
\* before the call (no create ever overwrites a record).
C2_FreshIdentifier ==
    [][(/\ lastOp'.op = "create"
        /\ ~lastOp'.out.raised
        /\ lastOp'.out.ret.status = "success")
       => <<BookingIdOf(lastOp'.out.ret), lastOp'.tool.input.restaurant_name>>
              \notin DOMAIN table]_vars

\* C3: once delete_booking has deleted a key that held a record, every lookup
\* of that key that the table answers reports "No booking found with ID b",
\* until a create writes the key again.
C3_DeleteThenLookup ==
    (lastOp.op = "lookup" /\ lastOp.env.ddb = "ok" /\ LookupKey \in deleted) =>
        lastOp.out = Returned(Str(NotFoundText(lastOp.booking_id)))

C3_Witness ==
    /\ lastOp.op = "lookup"
    /\ lastOp.env.ddb = "ok"
    /\ LookupKey \in deleted
    /\ table # EmptyTable
    /\ lastOp.out = Returned(Str(NotFoundText(lastOp.booking_id)))

\* C4: delete_booking of a key that holds no record, with both services
\* answering, returns a failure indication, not the 'deleted successfully'
\* message, and does not raise.
C4_DeleteMissingFails ==
    [][(/\ lastOp'.op = "delete"
        /\ lastOp'.env = AllOk
        /\ <<lastOp'.booking_id, lastOp'.restaurant_name>> \notin DOMAIN table)
       => /\ ~lastOp'.out.raised
          /\ lastOp'.out.ret # Str(DeletedText(lastOp'.booking_id))]_vars

\* C5: a lookup, which the table answers, of a key that holds no record
\* returns "No booking found with ID <booking_id>", does not raise, and
\* leaves the table as it was.
C5_LookupMissing ==
    [][(/\ lastOp'.op = "lookup"
        /\ lastOp'.env.ddb = "ok"
        /\ <<lastOp'.booking_id, lastOp'.restaurant_name>> \notin DOMAIN table)
       => /\ lastOp'.out = Returned(Str(NotFoundText(lastOp'.booking_id)))
          /\ table' = table]_vars

C5_Witness ==
    /\ lastOp.op = "lookup"
    /\ lastOp.env.ddb = "ok"
    /\ LookupKey \notin DOMAIN table
    /\ \E k \in DOMAIN table : k[1] = lastOp.booking_id
    /\ lastOp.out = Returned(Str(NotFoundText(lastOp.booking_id)))

\* C7: create_booking never raises: every fault (resolving the table, reading
\* the tool input, writing the record) comes back as a result with status
\* 'error', the call's toolUseId and the fault's text, and a successful write
\* comes back with status 'success' and the new identifier.
C7_CreateErrorChannel ==
    lastOp.op = "create" =>
        /\ ~lastOp.out.raised
        /\ lastOp.out.ret.toolUseId = lastOp.tool.toolUseId
        /\ lastOp.out.ret.status \in {"success", "error"}
        /\ (lastOp.env.ssm # "ok" =>
               /\ lastOp.out.ret.status = "error"
               /\ lastOp.out.ret.content = <<[text |-> <<lastOp.env.ssm>>]>>)
        /\ (lastOp.env.ddb # "ok" =>
               /\ lastOp.out.ret.status = "error"
               /\ lastOp.out.ret.content = <<[text |-> <<lastOp.env.ddb>>]>>)
        /\ (lastOp.tool.input \notin ValidInputs => lastOp.out.ret.status = "error")
        /\ (lastOp.out.ret.status = "success" =>
               <<BookingIdOf(lastOp.out.ret), lastOp.tool.input.restaurant_name>>
                   \in DOMAIN table)

\* C8: get_booking_details never raises; when get-item faults it returns the
\* fault's text; what it returns is the record, the not-found message or a
\* fault's text, and nothing else.
C8_LookupSwallowsFaults ==
    lastOp.op = "lookup" =>
        /\ ~lastOp.out.raised
        /\ (lastOp.env.ddb # "ok" => lastOp.out.ret = Str(<<lastOp.env.ddb>>))
        /\ \/ /\ lastOp.out.ret.type = "dict"
              /\ LookupKey \in DOMAIN table
              /\ lastOp.out.ret.value = table[LookupKey]
           \/ lastOp.out.ret = Str(NotFoundText(lastOp.booking_id))
           \/ \E f \in StoreFaults : lastOp.out.ret = Str(<<f>>)

C8_Witness ==
    /\ lastOp.op = "lookup"
    /\ lastOp.env.ddb \in StoreFaults
    /\ LookupKey \in DOMAIN table
    /\ lastOp.out = Returned(Str(<<lastOp.env.ddb>>))

\* C9: no path through delete_booking raises: a fault while resolving the
\* table name or while deleting is returned as text.
C9_DeleteSwallowsFaults ==
    lastOp.op = "delete" =>
        /\ ~lastOp.out.raised
        /\ lastOp.out.ret.type = "str"

\* C10: a create with all fields present that the services answer succeeds
\* whatever the table holds, and two successful creates with the same date,
\* hour and restaurant are afterwards both in the table, as separate records.
C10_NoDoubleBookingCheck ==
    /\ (lastOp.op = "create" /\ lastOp.env = AllOk /\ lastOp.tool.input \in ValidInputs) =>
           (~lastOp.out.raised /\ lastOp.out.ret.status = "success")
    /\ \A i, j \in 1..Len(bookings) :
           (/\ i < j
            /\ bookings[i].input.date = bookings[j].input.date
            /\ bookings[i].input.hour = bookings[j].input.hour
            /\ bookings[i].input.restaurant_name = bookings[j].input.restaurant_name)
           => /\ BookingKey(bookings[i]) # BookingKey(bookings[j])
              /\ BookingKey(bookings[i]) \in DOMAIN table
              /\ BookingKey(bookings[j]) \in DOMAIN table
              /\ Matches(table[BookingKey(bookings[i])],
                         bookings[i].booking_id, bookings[i].input)
              /\ Matches(table[BookingKey(bookings[j])],
                         bookings[j].booking_id, bookings[j].input)

\* C12: every success result of create_booking names a booking identifier
\* of exactly 8 characters, and the record written to the table carries that
\* same identifier as its booking_id.
C12_EightCharacterId ==
    (lastOp.op = "create" /\ ~lastOp.out.raised /\ lastOp.out.ret.status = "success") =>
        LET id == BookingIdOf(lastOp.out.ret)
            key == <<id, lastOp.tool.input.restaurant_name>>
        IN  /\ Len(id) = 8
            /\ key \in DOMAIN table
            /\ table[key].booking_id = id
            /\ table[key].name = lastOp.tool.input.guest_name

C12_Witness ==
    /\ lastOp.op = "create"
    /\ ~lastOp.out.raised
    /\ lastOp.out.ret.status = "success"
    /\ BookingIdOf(lastOp.out.ret) = <<"c", "0", "4", "4", "d", "e", "7", "2">>

\* C13: a record stored under a key keeps its attributes in every later state
\* until delete_booking removes the key: a key only goes from absent to
\* present by a create and from present to absent by a delete.
C13_NoUpdate ==
    [][/\ \A k \in DOMAIN table \cap DOMAIN table' : table'[k] = table[k]
       /\ DOMAIN table' \ DOMAIN table # {} => lastOp'.op = "create"
       /\ DOMAIN table \ DOMAIN table' # {} => lastOp'.op = "delete"]_vars

\* C19: whenever create_booking returns a result with status 'error', the
\* table after the call holds exactly the records it held before the call.
C19_FailedCreateWritesNothing ==
    [][(/\ lastOp'.op = "create"
        /\ ~lastOp'.out.raised
        /\ lastOp'.out.ret.status = "error")
       => table' = table]_vars

C19_Witness ==
    /\ lastOp.op = "create"
    /\ ~lastOp.out.raised
    /\ lastOp.out.ret.status = "error"
    /\ lastOp.out.ret.content = <<[text |-> <<lastOp.env.ddb>>]>>
    /\ table # EmptyTable

\* C20: delete_booking(b, r) changes at most the record under (b, r): every
\* record under another key (another id at the same restaurant, the same id
\* at another restaurant) is left as it was; get_booking_details never
\* changes the table.
C20_DeleteFrame ==
    [][/\ lastOp'.op = "delete" =>
            /\ DOMAIN table \ {<<lastOp'.booking_id, lastOp'.restaurant_name>>}
                   \subseteq DOMAIN table'
            /\ DOMAIN table' \subseteq DOMAIN table
            /\ \A k \in DOMAIN table' : table'[k] = table[k]
       /\ lastOp'.op = "lookup" => table' = table]_vars

C20_Witness ==
    /\ lastOp.op = "delete"
    /\ lastOp.out = Returned(Str(DeletedText(lastOp.booking_id)))
    /\ LookupKey \in deleted
    /\ LookupKey \notin DOMAIN table
    /\ \E k \in DOMAIN table : k[1] = lastOp.booking_id /\ k[2] # lastOp.restaurant_name

---------------------------------------------------------------------------
(* Properties of the /stream generator (checked under SpecStream) *)

\* the 'data' values of the text-bearing events, in stream order
DataValues(evs) ==
    LET text == SelectSeq(evs, LAMBDA e : "data" \in DOMAIN e)
    IN  [i \in 1..Len(text) |-> text[i].data]

\* C6: while the stream has not faulted, the chunks generate() has yielded
\* are exactly the 'data' values of the events consumed so far that contain
\* 'data', in stream order: none added, dropped, duplicated or reordered.
C6_StreamForwarder ==
    (genState = "iterating" \/ (genState = "done" /\ streamExc = "")) =>
        chunks = DataValues(SubSeq(events, 1, pos))

C6_Witness ==
    /\ genState = "done"
    /\ streamExc = ""
    /\ pos = Len(events)
    /\ events = <<E_both, E_tool, E_empty>>
    /\ chunks = <<E_both.data, E_empty.data>>

\* C11: when the event stream faults after k text chunks were yielded, those
\* k chunks are kept, exactly one more chunk, 'Error: <description>', follows
\* them as the last chunk, and the generator then ends.
C11_StreamFault ==
    (genState = "done" /\ streamExc # "") =>
        /\ pos = Len(events)
        /\ chunks = Append(DataValues(events), <<"Error: ", streamExc>>)

C11_Witness ==
    /\ genState = "done"
    /\ streamExc \in StreamFaults
    /\ Len(DataValues(events)) = 2
    /\ Len(chunks) = 3
    /\ chunks[3] = <<"Error: ", streamExc>>

---------------------------------------------------------------------------
(* Properties of the two ways of consuming an agent run *)

\* C14: process_streaming_response stops when the agent's stream is
\* exhausted: a run that does not fault always comes to return; by then the
\* loop body ran once for each event, in the stream's order, and the value
\* returned is the  result  of the last event.
C14_PullTermination ==
    /\ [](/\ Len(pullPrinted) = pullPos
          /\ \A i \in 1..pullPos : pullPrinted[i] = process_event(events[i]))
    /\ [](pullState = "returned" =>
            /\ pullPos = Len(events)
            /\ pullOut = Returned(events[Len(events)].result))
    /\ [](streamExc = "" => pullState # "raised")
    /\ ((streamExc = "") ~> (pullState = "returned"))

C14_Witness ==
    /\ pullState = "returned"
    /\ pullPos = MaxPullEvents + 1
    /\ pullOut = Returned("AgentResult")

PrefixOf(line) == line[1]
LinesWith(lines, prefix) == {j \in 1..Len(lines) : PrefixOf(lines[j]) = prefix}

\* C15: over the same run the two modes report the same text chunks in the
\* same order: the i-th event makes the pull loop print a Text line exactly
\* when it makes the handler print a MODEL OUTPUT line, exactly when the event
\* carries  data,  and the pull line is the snippet of the handler's payload.
C15_PushPullAgree ==
    \A i \in 1..handlerPos :
        LET pulled == SelectSeq(pullPrinted[i], LAMBDA l : PrefixOf(l) = "Text: ")
            pushed == SelectSeq(handlerPrinted[i], LAMBDA l : PrefixOf(l) = "MODEL OUTPUT: ")
        IN  /\ i <= pullPos
            /\ Len(pulled) = Len(pushed)
            /\ Len(pushed) = (IF "data" \in DOMAIN events[i] THEN 1 ELSE 0)
            /\ Len(pushed) = 1 =>
                 /\ Tail(pushed[1]) = events[i].data
                 /\ Tail(pulled[1]) = Snippet(Tail(pushed[1]))

C15_Witness ==
    /\ handlerPos = Len(events)
    /\ pullState = "returned"
    /\ events[1] = E_both
    /\ events[2] = E_long

LifecycleKeys == <<"init_event_loop", "start_event_loop", "start", "message", "force_stop">>
LifecycleMarker ==
    [init_event_loop |-> "Event loop initialized",
     start_event_loop |-> "Event loop cycle starting",
     start |-> "New cycle started",
     message |-> "New message created: ",
     force_stop |-> "Event loop force-stopped: "]
Applies(event, key) ==
    IF key = "message" THEN key \in DOMAIN event ELSE Truthy(event, key)

\* C18: for one event the loop prints at most one lifecycle marker, the one of
\* the first key in the order init_event_loop, start_event_loop, start,
\* message, force_stop that applies; whether it prints the tool line and the
\* text line depends only on the event's  current_tool_use  and  data,  so one
\* event can print a marker, a tool line and a text line together.
C18_LifecyclePriority ==
    \A i \in 1..pullPos :
        LET ev == events[i]
            lines == pullPrinted[i]
        IN  /\ \A r \in 1..Len(LifecycleKeys) :
                 Cardinality(LinesWith(lines, LifecycleMarker[LifecycleKeys[r]]))
                   = (IF /\ Applies(ev, LifecycleKeys[r])
                         /\ \A q \in 1..(r - 1) : ~Applies(ev, LifecycleKeys[q])
                      THEN 1 ELSE 0)
            /\ Cardinality(LinesWith(lines, "Using tool: "))
                 = (IF NamesTool(ev) THEN 1 ELSE 0)
            /\ Cardinality(LinesWith(lines, "Text: "))
                 = (IF "data" \in DOMAIN ev THEN 1 ELSE 0)

C18_Witness ==
    /\ pullPos >= 2
    /\ events[1] = E_all
    /\ Len(pullPrinted[1]) = 3
    /\ events[2] = E_cycle
    /\ pullPrinted[2] = << <<"Event loop cycle starting">> >>

---------------------------------------------------------------------------
(* Properties of the server cell *)

\* C16: however often the server cell is executed, start_server is handed to
\* create_task at most once: the first execution creates the task and binds
\* server_task, and every later execution creates no task and leaves
\* server_task as it was.
C16_OnceOnlyServerStart ==
    /\ [](/\ Len(tasks) <= 1
          /\ cellRuns >= 1 => (Len(tasks) = 1 /\ "server_task" \in DOMAIN globals))
    /\ [][(cellRuns >= 1 /\ cellRuns' = cellRuns + 1) =>
            (tasks' = tasks /\ globals' = globals)]_vars

C16_Witness ==
    /\ cellRuns = MaxCellRuns
    /\ cellRuns >= 2
    /\ Len(tasks) = 1
    /\ genState = "done"

---------------------------------------------------------------------------
(* Properties of the paginated scan *)

\* C17: selectAllFromDynamodb sends its first scan without a start key and
\* each further scan with the continuation key of the response before it;
\* it comes to return, and returns on the first response without a key; the
\* rows returned are the items of all pages in page order, each once.
C17_ScanPagination ==
    /\ [](/\ scanRequests # <<>> => scanRequests[1] = NoStartKey
          /\ \A k \in 1..(Len(scanRequests) - 1) :
               LET answer == scan(scanPages, scanRequests[k])
               IN  /\ "LastEvaluatedKey" \in DOMAIN answer
                   /\ scanRequests[k + 1] = answer.LastEvaluatedKey)
    /\ [](scanState = "returned" =>
            /\ "LastEvaluatedKey" \notin
                 DOMAIN scan(scanPages, scanRequests[Len(scanRequests)])
            /\ Len(scanRequests) = Len(scanPages)
            /\ LET all == Flatten(scanPages)
               IN  /\ Len(scanOut.rows) = Len(all)
                   /\ \A k \in 1..Len(all) :
                        \A c \in DOMAIN all[k] : scanOut.rows[k][c] = all[k][c])
    /\ <>(scanState = "returned")

C17_Witness ==
    /\ scanState = "returned"
    /\ Len(scanPages) = MaxPages
    /\ Len(scanOut.rows) >= 3
    /\ scanPages[1] # <<>>

---------------------------------------------------------------------------
(* Properties of the tool usage report *)

\* C21: the report visits the blocks of the history in message order and
\* block order; for a block that contains  toolResult  it prints the
\* toolUseId, status and content of that same block, wherever the block
\* stands in its message, and for a block that contains  toolUse  it prints
\* that block's id, name and input.
C21_ToolUsageReport ==
    /\ \A k \in 1..Len(reportPrinted) :
          LET entry == reportPrinted[k]
              block == messages[entry.msg].content[entry.block]
          IN  entry.lines =
                (IF "toolUse" \in DOMAIN block
                 THEN ToolUseLines(block.toolUse) ELSE <<>>)
                \o (IF "toolResult" \in DOMAIN block
                    THEN ToolResultLines(block.toolResult) ELSE <<>>)
    /\ \A k \in 1..(Len(reportPrinted) - 1) :
          \/ /\ reportPrinted[k + 1].msg = reportPrinted[k].msg
             /\ reportPrinted[k + 1].block = reportPrinted[k].block + 1
          \/ /\ reportPrinted[k + 1].msg = reportPrinted[k].msg + 1
             /\ reportPrinted[k + 1].block = 1
             /\ reportPrinted[k].block = Len(messages[reportPrinted[k].msg].content)
    /\ reportState = "done" =>
          Len(reportPrinted) = Len(Flatten([i \in 1..Len(messages) |-> messages[i].content]))

====
